---- MODULE Spec2Model ----
(***************************************************************************)
(* ArcWelderLib: the inverse processor (ArcWelderInverseProcessor.cpp),    *)
(* the welding console (ArcWelderConsole.cpp), the firmware argument set   *)
(* and the firmware class (firmware.h), and the arc fitting engine, as     *)
(* state machines, each with a specification of its own.                   *)
(*                                                                         *)
(* Doubles are modelled as integers in thousandths (1.0 is 1000).          *)
(* An exit status is a string: "running", "0", "1", "-1" (main's handler   *)
(* of a thrown ArgException pointer) or "abort" (an exception nobody       *)
(* catches ends in std::terminate).                                        *)
(***************************************************************************)
EXTENDS Integers, Sequences, FiniteSets, TLC

(***************************************************************************)
(* Bounds of the model.                                                    *)
(***************************************************************************)
\* The largest number of override arguments on one command line.
MaxOverrides == 2

(***************************************************************************)
(* firmware.h: the defaults of firmware_arguments.                         *)
(***************************************************************************)
DEFAULT_MM_PER_ARC_SEGMENT == 1000
DEFAULT_ARC_SEGMENTS_PER_R == 0
DEFAULT_MIN_MM_PER_ARC_SEGMENT == 0
DEFAULT_MIN_ARC_SEGMENTS == 24
DEFAULT_MIN_CIRCLE_SEGMENTS == 72
DEFAULT_ARC_SEGMENTS_PER_SEC == 0
DEFAULT_N_ARC_CORRECTIONS == 24
DEFAULT_G90_G91_INFLUENCES_EXTRUDER == FALSE
DEFAULT_MM_MAX_ARC_ERROR == 10
LATEST_FIRMWARE_VERSION_NAME == "LATEST_RELEASE"
DEFAULT_FIRMWARE_VERSION_NAME == LATEST_FIRMWARE_VERSION_NAME
DEFAULT_FIRMWARE_TYPE == "MARLIN_2"

\* firmware_types.h: the names of the firmware types, in enum order.
firmware_type_names == <<"MARLIN_1", "MARLIN_2", "REPETIER", "PRUSA", "SMOOTHIEWARE">>

Range(s) == {s[i] : i \in 1..Len(s)}

FirmwareTypes == Range(firmware_type_names)

\* firmware_arguments::all_arguments_, in the order the constructor pushes them.
all_arguments_ ==
  <<"mm_per_arc_segment", "arc_segments_per_r", "min_mm_per_arc_segment",
    "min_arc_segments", "arc_segments_per_sec", "n_arc_correction",
    "g90_g91_influences_extruder", "mm_max_arc_error", "min_circle_segments",
    "min_arc_segment_mm", "max_arc_segment_mm">>

\* firmware_arguments::firmware_arguments(): used_arguments_ starts empty.
firmware_arguments ==
  [mm_per_arc_segment |-> DEFAULT_MM_PER_ARC_SEGMENT,
   arc_segments_per_r |-> DEFAULT_ARC_SEGMENTS_PER_R,
   min_mm_per_arc_segment |-> DEFAULT_MIN_MM_PER_ARC_SEGMENT,
   min_arc_segments |-> DEFAULT_MIN_ARC_SEGMENTS,
   arc_segments_per_sec |-> DEFAULT_ARC_SEGMENTS_PER_SEC,
   n_arc_correction |-> DEFAULT_N_ARC_CORRECTIONS,
   g90_g91_influences_extruder |-> DEFAULT_G90_G91_INFLUENCES_EXTRUDER,
   mm_max_arc_error |-> DEFAULT_MM_MAX_ARC_ERROR,
   version |-> DEFAULT_FIRMWARE_VERSION_NAME,
   firmware_type |-> DEFAULT_FIRMWARE_TYPE,
   latest_release_version |-> LATEST_FIRMWARE_VERSION_NAME,
   used_arguments_ |-> << >>]

\* firmware_arguments::set_used_arguments
set_used_arguments(fa, arguments) == [fa EXCEPT !.used_arguments_ = arguments]

\* firmware_arguments::is_argument_used: std::find over used_arguments_.
is_argument_used(fa, argument_name) == argument_name \in Range(fa.used_arguments_)

\* Every known argument reported unused, whatever the applicability set.
get_all_arguments(fa) == all_arguments_

\* firmware_arguments::get_unused_arguments: all_arguments_ in order, the
\* names is_argument_used accepts left out.
get_unused_arguments(fa) ==
  SelectSeq(all_arguments_, LAMBDA argument_name : ~is_argument_used(fa, argument_name))

\* firmware_arguments::get_available_arguments
get_available_arguments(fa) == fa.used_arguments_

\* The setters of the aliases write the aliased field.
set_min_circle_segments(fa, segments) == [fa EXCEPT !.min_arc_segments = segments]

set_min_arc_segment_mm(fa, mm) == [fa EXCEPT !.min_mm_per_arc_segment = mm]

set_max_arc_segment_mm(fa, mm) == [fa EXCEPT !.mm_per_arc_segment = mm]

(***************************************************************************)
(* The firmware classes (marlin_1, marlin_2, repetier, prusa,              *)
(* smoothieware): their version names and versioned defaults tables.       *)
(***************************************************************************)
\* firmware::get_version_names of each firmware class.
version_names_(fw) ==
  CASE fw = "MARLIN_1" -> <<"1.1.9.1">>
    [] fw = "MARLIN_2" -> <<"2.0.9.1", "2.0.9.2">>
    [] fw = "REPETIER" -> <<"1.0.4">>
    [] fw = "PRUSA" -> <<"3.10.0", "3.11.0">>
    [] fw = "SMOOTHIEWARE" -> <<"2021-06-19">>

\* The version LATEST_RELEASE resolves to: the newest entry of the table.
latest_release_version(fw) == version_names_(fw)[Len(version_names_(fw))]

\* firmware::is_valid_version
is_valid_version(fw, version) ==
  version = LATEST_FIRMWARE_VERSION_NAME \/ version \in Range(version_names_(fw))

\* The table entries a firmware object can be at for args_.version: the named
\* one, the newest for LATEST_RELEASE, and an unspecified one of its own
\* entries when the version is none of its names.
current_versions(fw, version) ==
  IF version \in Range(version_names_(fw)) THEN {version}
  ELSE IF version = LATEST_FIRMWARE_VERSION_NAME THEN {latest_release_version(fw)}
  ELSE Range(version_names_(fw))

\* The applicability set of a firmware and version.
used_arguments(fw, v) ==
  CASE fw = "MARLIN_1" ->
         <<"mm_per_arc_segment", "n_arc_correction", "g90_g91_influences_extruder">>
    [] fw = "MARLIN_2" /\ v = "2.0.9.1" ->
         <<"mm_per_arc_segment", "arc_segments_per_r", "min_mm_per_arc_segment",
           "min_arc_segments", "arc_segments_per_sec", "n_arc_correction",
           "g90_g91_influences_extruder">>
    [] fw = "MARLIN_2" /\ v # "2.0.9.1" ->
         <<"min_circle_segments", "min_arc_segment_mm", "max_arc_segment_mm",
           "arc_segments_per_sec", "n_arc_correction", "g90_g91_influences_extruder">>
    [] fw = "REPETIER" ->
         <<"mm_per_arc_segment", "n_arc_correction", "g90_g91_influences_extruder">>
    [] fw = "PRUSA" /\ v = "3.10.0" ->
         <<"mm_per_arc_segment", "n_arc_correction", "g90_g91_influences_extruder">>
    [] fw = "PRUSA" /\ v # "3.10.0" ->
         <<"mm_per_arc_segment", "min_mm_per_arc_segment", "min_arc_segments",
           "arc_segments_per_sec", "n_arc_correction", "g90_g91_influences_extruder">>
    [] fw = "SMOOTHIEWARE" ->
         <<"mm_per_arc_segment", "mm_max_arc_error", "n_arc_correction",
           "g90_g91_influences_extruder">>

\* The defaults of a firmware and version, written over the arguments the
\* object holds (its args_, set by set_arguments). G90/G91 move the extruder
\* axis with the others in the Marlin family and not in the other families.
default_values(fw, v, a) ==
  CASE fw = "MARLIN_1" ->
         [a EXCEPT !.mm_per_arc_segment = 1000, !.n_arc_correction = 25,
                   !.g90_g91_influences_extruder = TRUE]
    [] fw = "MARLIN_2" /\ v = "2.0.9.1" ->
         [a EXCEPT !.mm_per_arc_segment = 1000, !.min_mm_per_arc_segment = 0,
                   !.min_arc_segments = 24, !.arc_segments_per_sec = 0,
                   !.arc_segments_per_r = 0, !.n_arc_correction = 25,
                   !.g90_g91_influences_extruder = TRUE]
    [] fw = "MARLIN_2" /\ v # "2.0.9.1" ->
         [a EXCEPT !.mm_per_arc_segment = 1000, !.min_mm_per_arc_segment = 100,
                   !.min_arc_segments = 72, !.arc_segments_per_sec = 0,
                   !.n_arc_correction = 25, !.g90_g91_influences_extruder = TRUE]
    [] fw = "REPETIER" ->
         [a EXCEPT !.mm_per_arc_segment = 1000, !.n_arc_correction = 25,
                   !.g90_g91_influences_extruder = FALSE]
    [] fw = "PRUSA" /\ v = "3.10.0" ->
         [a EXCEPT !.mm_per_arc_segment = 1000, !.n_arc_correction = 20,
                   !.g90_g91_influences_extruder = TRUE]
    [] fw = "PRUSA" /\ v # "3.10.0" ->
         [a EXCEPT !.mm_per_arc_segment = 1000, !.min_mm_per_arc_segment = 100,
                   !.min_arc_segments = 24, !.arc_segments_per_sec = 0,
                   !.n_arc_correction = 20, !.g90_g91_influences_extruder = TRUE]
    [] fw = "SMOOTHIEWARE" ->
         [a EXCEPT !.mm_per_arc_segment = 0, !.mm_max_arc_error = 10,
                   !.n_arc_correction = 5, !.g90_g91_influences_extruder = FALSE]

\* firmware::get_default_arguments_for_current_version of the firmware object
\* fw holding the arguments a, its table being at the entry v.
get_default_arguments_for_current_version(fw, a, v) ==
  set_used_arguments(
    [default_values(fw, v, a) EXCEPT !.latest_release_version = latest_release_version(fw)],
    used_arguments(fw, v))

(***************************************************************************)
(* logger.h: the log level names the programs look the level up in.        *)
(***************************************************************************)
log_level_names == <<"NOSET", "VERBOSE", "DEBUG", "INFO", "WARNING", "ERROR", "CRITICAL">>

\* The index of a name in log_level_names, -1 when it is none of them: the
\* loop of ArcWelderInverseProcessor.cpp:417-426 with log_level_values taken
\* as the index.
log_level_lookup(log_level_string) ==
  IF \E i \in 1..Len(log_level_names) : log_level_names[i] = log_level_string
  THEN CHOOSE i \in 1..Len(log_level_names) : log_level_names[i] = log_level_string
  ELSE -1

(***************************************************************************)
(* The command line of the inverse processor.                              *)
(*   positional        the tokens no labeled argument of cmd matches, in   *)
(*                     order: TCLAP hands them to the unlabeled arguments  *)
(*                     <source> and <target>, whatever they look like      *)
(*   firmware_type     the value of --firmware-type (its default if unset) *)
(*   firmware_version  the value of --firmware-version (its default)       *)
(*   print             where --print-firmware-defaults stands: "absent",   *)
(*                     "leading" (before every token help_cmd rejects) or  *)
(*                     "trailing" (after one)                              *)
(*   overrides         the override arguments of cmd that are set          *)
(*   value             the number the numeric overrides carry              *)
(*   g90               the value of --g90-influences-extruder              *)
(*   log_level         the value of --log-level, "UNSET" if not supplied   *)
(***************************************************************************)
SourceFile == "a.gcode"

OtherFile == "b.gcode"

\* --mm-max-arc-error=<value> as a token of the command line.
MmMaxArcErrorToken == "--mm-max-arc-error=7"

Positionals ==
  { << >>, <<SourceFile>>, <<SourceFile, SourceFile>>, <<SourceFile, OtherFile>>,
    <<SourceFile, MmMaxArcErrorToken>>, <<MmMaxArcErrorToken, SourceFile>>,
    <<SourceFile, OtherFile, MmMaxArcErrorToken>> }

\* The override arguments in the order run_arc_straightener applies them
\* (ArcWelderInverseProcessor.cpp:321-415).
override_args ==
  <<"mm_per_arc_segment", "min_mm_per_arc_segment", "min_arc_segments",
    "arc_segments_per_sec", "g90_g91_influences_extruder", "n_arc_correction",
    "mm_max_arc_error", "min_circle_segments", "min_arc_segment_mm",
    "max_arc_segment_mm">>

\* The override arguments cmd.add registers (ArcWelderInverseProcessor.cpp:216-230):
\* mm_max_arc_error_arg is defined at line 197 and never added.
cmd_override_args == Range(override_args) \ {"mm_max_arc_error"}

OverrideValues == {7, 1000}

G90Values == {"TRUE", "FALSE", "DEFAULT"}

FirmwareTypeInputs == FirmwareTypes \cup {"BOGUS"}

FirmwareVersionInputs == {LATEST_FIRMWARE_VERSION_NAME, "2.0.9.1", "3.10.0", "0.0.0"}

LogLevelInputs == {"UNSET", "DEBUG", "", "BOGUS"}

CommandLines ==
  { c \in [positional : Positionals,
           firmware_type : FirmwareTypeInputs,
           firmware_version : FirmwareVersionInputs,
           print : {"absent", "leading", "trailing"},
           overrides : {s \in SUBSET cmd_override_args : Cardinality(s) <= MaxOverrides},
           value : OverrideValues,
           g90 : G90Values,
           log_level : LogLevelInputs] :
      /\ ("g90_g91_influences_extruder" \notin c.overrides => c.g90 = "DEFAULT")
      /\ ((c.overrides \ {"g90_g91_influences_extruder"}) = {} => c.value = 7) }

VARIABLES
  cl,                   \* the command line (argv)
  pc,                   \* where run_arc_straightener is
  args,                 \* arc_interpolation_args: firmware_args, source_path, target_path
  p_already_set,        \* print_firmware_defaults_arg was set by help_cmd.parse
  log_level_value,
  overwrite_source_file,
  temp_file_path,
  ov_i,                 \* the override argument checked next (index in override_args)
  ret,                  \* what run_arc_straightener returned, "none" while it runs or if it threw
  exit_status,          \* the exit status of the process
  msg,                  \* the messages written to stdout and stderr
  error,                \* the configuration error raised, "none" if none
  printed,              \* what print_firmware_defaults printed: << >> or <<firmware_arguments>>
  logger,               \* a logger was created
  interp,               \* the arc_interpolation constructed: << >> or <<its args>>
  processed,            \* interpolator.process() was called
  fs                    \* the file system: path -> content

inv_vars == <<cl, pc, args, p_already_set, log_level_value, overwrite_source_file,
              temp_file_path, ov_i, ret, exit_status, msg, error, printed, logger,
              interp, processed, fs>>

Paths == {SourceFile, OtherFile, MmMaxArcErrorToken, "tmp", ""}

\* arc_interpolation_args(): default firmware_args, empty paths.
arc_interpolation_args ==
  [firmware_args |-> firmware_arguments, source_path |-> "", target_path |-> ""]

\* The state run_arc_straightener starts in, for one of the given command lines.
InvStart(command_lines) ==
  /\ cl \in command_lines
  /\ pc = "help_parse"
  /\ args = arc_interpolation_args
  /\ p_already_set = FALSE
  /\ log_level_value = -1
  /\ overwrite_source_file = FALSE
  /\ temp_file_path = ""
  /\ ov_i = 1
  /\ ret = "none"
  /\ exit_status = "running"
  /\ msg = {}
  /\ error = "none"
  /\ printed = << >>
  /\ logger = FALSE
  /\ interp = << >>
  /\ processed = FALSE
  /\ fs = [p \in Paths |-> IF p = SourceFile THEN "original" ELSE "absent"]

InvInit == InvStart(CommandLines)

(***************************************************************************)
(* How run_arc_straightener ends.                                          *)
(***************************************************************************)
\* return value; in main (ArcWelderInverseProcessor.cpp:50-59): the value is
\* dropped and main runs off its end, which returns 0.
Return(value) ==
  /\ pc' = "done"
  /\ ret' = value
  /\ exit_status' = "0"

\* ThrowNew as it would be if the exception were thrown by value: the handler
\* of line 435 returns 1, which main drops.
ThrowNew_caught_by_reference(what, kind) ==
  /\ pc' = "done"
  /\ ret' = "1"
  /\ exit_status' = "0"
  /\ msg' = msg \cup {what}
  /\ error' = kind

\* throw new TCLAP::ArgException(...): a pointer is thrown. The handlers of
\* lines 249 and 435 catch ArgException&, which a pointer does not match;
\* main's handler (line 55) catches ArgException*, prints and returns -1.
ThrowNew(what, kind) ==
  /\ pc' = "done"
  /\ ret' = "none"
  /\ exit_status' = "-1"
  /\ msg' = msg \cup {what}
  /\ error' = kind

\* cmd.parse handles its own exceptions: StdOutput::failure prints the error
\* and the usage, and the process exits with status 1.
TclapExit(kind) ==
  /\ pc' = "done"
  /\ ret' = "none"
  /\ exit_status' = "1"
  /\ msg' = msg \cup {"PARSE ERROR"}
  /\ error' = kind

\* cmd.getOutput()->failure(cmd, exc) at line 255 throws TCLAP::ExitException
\* out of the handler: neither run_arc_straightener nor main catches it.
ExitExceptionEscapes ==
  /\ pc' = "done"
  /\ ret' = "none"
  /\ exit_status' = "abort"
  /\ msg' = msg \cup {"PARSE ERROR"}
  /\ error' = "parse"

(***************************************************************************)
(* print_firmware_defaults (ArcWelderInverseProcessor.cpp:601-644)         *)
(***************************************************************************)
print_firmware_defaults(firmware_type_string, firmware_version_string) ==
  LET a == [firmware_arguments EXCEPT !.firmware_type = firmware_type_string,
                                      !.version = firmware_version_string]
  IN IF ~is_valid_version(firmware_type_string, firmware_version_string)
     THEN /\ ThrowNew("Unknown Version Exception", "version")
          /\ UNCHANGED printed
     ELSE /\ \E v \in current_versions(a.firmware_type, a.version) :
               printed' = <<get_default_arguments_for_current_version(a.firmware_type, a, v)>>
          /\ msg' = msg \cup {"Showing arguments and defaults"}
          /\ Return("0")
          /\ UNCHANGED error

(***************************************************************************)
(* run_arc_straightener (ArcWelderInverseProcessor.cpp:60-524)             *)
(***************************************************************************)
\* help_cmd knows --firmware-type, --firmware-version and
\* --print-firmware-defaults only: every other token is one it rejects.
RejectedByHelpCmd ==
  cl.positional # << >> \/ cl.overrides # {} \/ cl.log_level # "UNSET"

\* The value of --firmware-type does not meet firmware_type_constraint.
BadFirmwareType == cl.firmware_type \notin FirmwareTypes

\* Lines 232-257: help_cmd.parse throws at the first token it cannot take.
\* With none, print_firmware_defaults runs when the switch is set. An
\* exception about --firmware-type ends the process (line 255), any other is
\* swallowed, with the switch already set if it stood before that token.
HelpParse ==
  /\ pc = "help_parse"
  /\ IF ~RejectedByHelpCmd /\ ~BadFirmwareType
     THEN IF cl.print # "absent"
          THEN /\ print_firmware_defaults(cl.firmware_type, cl.firmware_version)
               /\ UNCHANGED p_already_set
          ELSE /\ pc' = "parse"
               /\ UNCHANGED <<p_already_set, ret, exit_status, msg, error, printed>>
     ELSE \E first \in {"token", "firmware_type"} :
            /\ first = "token" => RejectedByHelpCmd
            /\ first = "firmware_type" => BadFirmwareType
            /\ IF first = "firmware_type"
               THEN /\ ExitExceptionEscapes
                    /\ UNCHANGED <<p_already_set, printed>>
               ELSE /\ p_already_set' = (cl.print = "leading")
                    /\ pc' = "parse"
                    /\ UNCHANGED <<ret, exit_status, msg, error, printed>>
  /\ UNCHANGED <<cl, args, log_level_value, overwrite_source_file, temp_file_path,
                 ov_i, logger, interp, processed, fs>>

\* What makes cmd.parse fail: the switch set twice (line 263 resets the two
\* value arguments, not the switch), a value outside a constraint, a token
\* left over after <source> and <target> took theirs, or no <source>.
CmdParseFails ==
  \/ (p_already_set /\ cl.print # "absent")
  \/ BadFirmwareType
  \/ cl.log_level = "BOGUS"
  \/ Len(cl.positional) > 2
  \/ Len(cl.positional) = 0

\* Lines 261-264.
CmdParse ==
  /\ pc = "parse"
  /\ IF CmdParseFails
     THEN TclapExit(IF Len(cl.positional) = 0 THEN "source" ELSE "parse")
     ELSE /\ pc' = "version"
          /\ UNCHANGED <<ret, exit_status, msg, error>>
  /\ UNCHANGED <<cl, args, p_already_set, log_level_value, overwrite_source_file,
                 temp_file_path, ov_i, printed, logger, interp, processed, fs>>

\* source_arg.isSet() and the values of the unlabeled arguments.
source_arg_isSet == Len(cl.positional) >= 1

source_arg_getValue == IF Len(cl.positional) >= 1 THEN cl.positional[1] ELSE ""

target_arg_getValue == IF Len(cl.positional) >= 2 THEN cl.positional[2] ELSE ""

\* is_firmware_version_valid_for_type (lines 555-599): throws for a version
\* the type's firmware object does not know. (It has no return statement;
\* its caller drops the value.)
is_firmware_version_valid_for_type(firmware_type_string, firmware_version) ==
  is_valid_version(firmware_type_string, firmware_version)

\* Lines 266-275: the local firmware_type is computed and never used;
\* args.firmware_args.firmware_type keeps the value of its constructor.
ValidateVersion ==
  /\ pc = "version"
  /\ IF ~is_firmware_version_valid_for_type(cl.firmware_type, cl.firmware_version)
     THEN /\ ThrowNew("Unknown Version Exception", "version")
          /\ UNCHANGED args
     ELSE /\ args' = [args EXCEPT !.firmware_args.version = cl.firmware_version]
          /\ pc' = "defaults"
          /\ UNCHANGED <<ret, exit_status, msg, error>>
  /\ UNCHANGED <<cl, p_already_set, log_level_value, overwrite_source_file,
                 temp_file_path, ov_i, printed, logger, interp, processed, fs>>

\* The firmware object the switch of line 278 selects.
selected_firmware == args.firmware_args.firmware_type

\* Lines 277-300: set_arguments, then the defaults of the object's version.
FetchDefaults ==
  /\ pc = "defaults"
  /\ \E v \in current_versions(selected_firmware, args.firmware_args.version) :
       args' = [args EXCEPT !.firmware_args =
                  get_default_arguments_for_current_version(
                    selected_firmware, args.firmware_args, v)]
  /\ pc' = "source"
  /\ UNCHANGED <<cl, p_already_set, log_level_value, overwrite_source_file,
                 temp_file_path, ov_i, ret, exit_status, msg, error, printed,
                 logger, interp, processed, fs>>

\* The target path as the command line gives it.
target_path_as_given(target_path, source_path) == target_path

\* Lines 316-319 (ArcWelderConsole.cpp:208-212): an empty target path is
\* replaced by the source path.
target_path_or_source(target_path, source_path) ==
  IF target_path = "" THEN source_path ELSE target_path

\* Lines 304-319.
CheckSource ==
  /\ pc = "source"
  /\ IF ~source_arg_isSet
     THEN /\ msg' = msg \cup {"The <source> parameter is required."}
          /\ error' = "source"
          /\ Return("0")
          /\ UNCHANGED args
     ELSE /\ args' = [args EXCEPT
                        !.source_path = source_arg_getValue,
                        !.target_path = target_path_or_source(target_arg_getValue,
                                                              source_arg_getValue)]
          /\ pc' = "override"
          /\ UNCHANGED <<ret, exit_status, msg, error>>
  /\ UNCHANGED <<cl, p_already_set, log_level_value, overwrite_source_file,
                 temp_file_path, ov_i, printed, logger, interp, processed, fs>>

\* An override argument is on the command line. --mm-max-arc-error is a
\* token cmd has no labeled argument for.
Supplied(name) ==
  IF name = "mm_max_arc_error"
  THEN MmMaxArcErrorToken \in Range(cl.positional)
  ELSE name \in cl.overrides

\* <name>_arg.isSet(): only an argument added to cmd is ever set by cmd.parse.
arg_isSet(name) == name \in cmd_override_args /\ Supplied(name)

\* The assignment each override makes (lines 329, 338, 347, 356, 365, 374,
\* 383, 394, 404, 414).
apply_override(fa, name) ==
  CASE name = "mm_per_arc_segment" -> [fa EXCEPT !.mm_per_arc_segment = cl.value]
    [] name = "min_mm_per_arc_segment" -> [fa EXCEPT !.min_mm_per_arc_segment = cl.value]
    [] name = "min_arc_segments" -> [fa EXCEPT !.min_arc_segments = cl.value]
    [] name = "arc_segments_per_sec" -> [fa EXCEPT !.arc_segments_per_sec = cl.value]
    [] name = "g90_g91_influences_extruder" ->
         [fa EXCEPT !.g90_g91_influences_extruder = (cl.g90 = "TRUE")]
    [] name = "n_arc_correction" -> [fa EXCEPT !.n_arc_correction = cl.value]
    [] name = "mm_max_arc_error" -> [fa EXCEPT !.mm_max_arc_error = cl.value]
    [] name = "min_circle_segments" -> set_min_circle_segments(fa, cl.value)
    [] name = "min_arc_segment_mm" -> set_min_arc_segment_mm(fa, cl.value)
    [] name = "max_arc_segment_mm" -> set_max_arc_segment_mm(fa, cl.value)

\* Lines 321-415, one if-block a step: the supplied argument must be in the
\* applicability set, or an ArgException is thrown before its assignment.
ApplyOverride ==
  /\ pc = "override"
  /\ LET name == override_args[ov_i]
     IN IF arg_isSet(name) /\ ~is_argument_used(args.firmware_args, name)
        THEN /\ ThrowNew("Invalid Argument For Firmware", "override")
             /\ UNCHANGED <<args, ov_i>>
        ELSE /\ args' = IF arg_isSet(name)
                        THEN [args EXCEPT !.firmware_args = apply_override(@, name)]
                        ELSE args
             /\ ov_i' = ov_i + 1
             /\ pc' = IF ov_i = Len(override_args) THEN "log_level" ELSE "override"
             /\ UNCHANGED <<ret, exit_status, msg, error>>
  /\ UNCHANGED <<cl, p_already_set, log_level_value, overwrite_source_file,
                 temp_file_path, printed, logger, interp, processed, fs>>

\* log_level_arg.getValue(): the default is log_level_string_default, "INFO".
log_level_arg_getValue == IF cl.log_level = "UNSET" THEN "INFO" ELSE cl.log_level

\* Lines 416-431.
ResolveLogLevel ==
  /\ pc = "log_level"
  /\ IF log_level_lookup(log_level_arg_getValue) = -1
     THEN /\ ThrowNew("Unknown log level", "log_level")
          /\ UNCHANGED log_level_value
     ELSE /\ log_level_value' = log_level_lookup(log_level_arg_getValue)
          /\ pc' = "setup"
          /\ UNCHANGED <<ret, exit_status, msg, error>>
  /\ UNCHANGED <<cl, args, p_already_set, overwrite_source_file, temp_file_path,
                 ov_i, printed, logger, interp, processed, fs>>

\* Lines 441-489: the logger, then the temporary path when source and target
\* are one file. utilities::get_temp_file_path_for_file may fail, which is
\* logged and nothing more: temp_file_path stays empty.
Setup ==
  /\ pc = "setup"
  /\ logger' = TRUE
  /\ IF args.source_path = args.target_path
     THEN /\ overwrite_source_file' = TRUE
          /\ \E ok \in BOOLEAN :
               /\ temp_file_path' = IF ok THEN "tmp" ELSE ""
               /\ msg' = IF ok THEN msg
                         ELSE msg \cup {"a temporary file path could not be created"}
          /\ args' = [args EXCEPT !.target_path = temp_file_path']
     ELSE UNCHANGED <<overwrite_source_file, temp_file_path, msg, args>>
  /\ pc' = "construct"
  /\ UNCHANGED <<cl, p_already_set, log_level_value, ov_i, ret, exit_status, error,
                 printed, interp, processed, fs>>

\* Line 491: arc_interpolation interpolator(args).
Construct ==
  /\ pc = "construct"
  /\ interp' = <<args>>
  /\ pc' = "process"
  /\ UNCHANGED <<cl, args, p_already_set, log_level_value, overwrite_source_file,
                 temp_file_path, ov_i, ret, exit_status, msg, error, printed,
                 logger, processed, fs>>

\* Line 496: interpolator.process() reads the source and writes the target,
\* if it can open both.
Process ==
  /\ pc = "process"
  /\ processed' = TRUE
  /\ fs' = IF fs[interp[1].source_path] = "absent" \/ interp[1].target_path = ""
           THEN fs
           ELSE [fs EXCEPT ![interp[1].target_path] = "converted"]
  /\ pc' = IF overwrite_source_file THEN "remove" ELSE "finish"
  /\ UNCHANGED <<cl, args, p_already_set, log_level_value, overwrite_source_file,
                 temp_file_path, ov_i, ret, exit_status, msg, error, printed,
                 logger, interp>>

\* Line 511: std::remove(args.source_path).
RemoveSource ==
  /\ pc = "remove"
  /\ fs' = [fs EXCEPT ![args.source_path] = "absent"]
  /\ pc' = "rename"
  /\ UNCHANGED <<cl, args, p_already_set, log_level_value, overwrite_source_file,
                 temp_file_path, ov_i, ret, exit_status, msg, error, printed,
                 logger, interp, processed>>

\* Line 514: std::rename(args.target_path, args.source_path) fails when the
\* temporary file does not exist.
RenameTemp ==
  /\ pc = "rename"
  /\ fs' = IF args.target_path = "" \/ fs[args.target_path] = "absent"
           THEN fs
           ELSE [fs EXCEPT ![args.source_path] = fs[args.target_path],
                           ![args.target_path] = "absent"]
  /\ pc' = "finish"
  /\ UNCHANGED <<cl, args, p_already_set, log_level_value, overwrite_source_file,
                 temp_file_path, ov_i, ret, exit_status, msg, error, printed,
                 logger, interp, processed>>

\* Lines 517-522.
Finish ==
  /\ pc = "finish"
  /\ msg' = msg \cup {"Process completed successfully."}
  /\ Return("0")
  /\ UNCHANGED <<cl, args, p_already_set, log_level_value, overwrite_source_file,
                 temp_file_path, ov_i, error, printed, logger, interp, processed, fs>>

(***************************************************************************)
(* Properties of the inverse processor.                                    *)
(***************************************************************************)
InitialFiles == [p \in Paths |-> IF p = SourceFile THEN "original" ELSE "absent"]

\* No processing was performed: no arc_interpolation, no process(), and no
\* file written, removed or renamed.
NoProcessing == interp = << >> /\ ~processed /\ fs = InitialFiles

\* The defaults were fetched (every applicability set of the tables is non-empty).
DefaultsFetched == args.firmware_args.used_arguments_ # << >>

\* C1: an override argument that is supplied and is not in the applicability
\* set of the resolved firmware arguments is a configuration error: the run
\* performs no processing and, once over, has raised an error.
C1_InapplicableOverrideIsAnError ==
  \A name \in Range(override_args) :
    (DefaultsFetched /\ Supplied(name) /\ ~is_argument_used(args.firmware_args, name))
      => /\ NoProcessing
         /\ pc = "done" => error # "none"

\* The defaults T's own firmware object returns for the requested version.
RequestedDefaults ==
  LET a == [firmware_arguments EXCEPT !.firmware_type = cl.firmware_type,
                                      !.version = cl.firmware_version]
  IN { get_default_arguments_for_current_version(cl.firmware_type, a, v) :
         v \in current_versions(cl.firmware_type, cl.firmware_version) }

\* C2: for every firmware type named by --firmware-type, the defaults and the
\* applicability set stored in args.firmware_args are the ones the firmware
\* object of that type returns.
C2_DefaultsAreThoseOfTheRequestedType ==
  /\ pc = "defaults" => selected_firmware = cl.firmware_type
  /\ pc = "source" => args.firmware_args \in RequestedDefaults

C6_NoUnsupportedCombinationRuns ==
  processed =>
    is_valid_version(interp[1].firmware_args.firmware_type,
                     interp[1].firmware_args.version)

\* The value an override argument stands for in firmware_arguments.
parameter_value(fa, name) ==
  CASE name = "mm_per_arc_segment" -> fa.mm_per_arc_segment
    [] name = "min_mm_per_arc_segment" -> fa.min_mm_per_arc_segment
    [] name = "min_arc_segments" -> fa.min_arc_segments
    [] name = "arc_segments_per_sec" -> fa.arc_segments_per_sec
    [] name = "g90_g91_influences_extruder" -> fa.g90_g91_influences_extruder
    [] name = "n_arc_correction" -> fa.n_arc_correction
    [] name = "mm_max_arc_error" -> fa.mm_max_arc_error
    [] name = "min_circle_segments" -> fa.min_arc_segments
    [] name = "min_arc_segment_mm" -> fa.min_mm_per_arc_segment
    [] name = "max_arc_segment_mm" -> fa.mm_per_arc_segment

\* C7: with no override supplied, every parameter passed to arc_interpolation
\* has the default of the selected (requested) firmware and version.
C7_UnsuppliedParametersKeepSelectedDefaults ==
  (interp # << >> /\ \A name \in Range(override_args) : ~Supplied(name)) =>
    \E d \in RequestedDefaults :
      \A name \in Range(override_args) :
        parameter_value(interp[1].firmware_args, name) = parameter_value(d, name)

\* C11: when source and target are one path, the conversion is never written
\* to the source path itself, and in every state the source path holds the
\* complete original file or the complete converted file, never no file.
C11_SourceReplacedAtomically ==
  overwrite_source_file =>
    /\ interp # << >> => interp[1].target_path # interp[1].source_path
    /\ InitialFiles[args.source_path] = "original" =>
         fs[args.source_path] \in {"original", "converted"}

\* C12: whenever --print-firmware-defaults is supplied with a firmware type
\* and version that exist, whatever else is on the command line, the run
\* prints the defaults and the available arguments of that firmware and
\* version and returns; no conversion runs and no file is touched.
C12_PrintDefaultsIgnoresOtherArguments ==
  (cl.print # "absent" /\ ~BadFirmwareType
     /\ is_valid_version(cl.firmware_type, cl.firmware_version)) =>
    /\ NoProcessing
    /\ pc = "done" => /\ printed # << >>
                      /\ printed[1] \in RequestedDefaults
                      /\ ret = "0"

\* C13: --mm-max-arc-error=7, supplied for a firmware and version whose
\* applicability set contains mm_max_arc_error, is accepted by the command
\* line (it is not taken for the source or the target path) and the value
\* is stored in args.firmware_args.mm_max_arc_error.
C13_MmMaxArcErrorOverrideIsStored ==
  (/\ Supplied("mm_max_arc_error")
   /\ ~BadFirmwareType
   /\ \A d \in RequestedDefaults : is_argument_used(d, "mm_max_arc_error")) =>
    /\ MmMaxArcErrorToken \notin {args.source_path, args.target_path}
    /\ interp # << >> => interp[1].firmware_args.mm_max_arc_error = 7

\* The requested firmware's own default of g90_g91_influences_extruder.
RequestedG90Defaults == {d.g90_g91_influences_extruder : d \in RequestedDefaults}

\* C14: --g90-influences-extruder=TRUE stores true, =FALSE stores false, and
\* DEFAULT, written out or left out, leaves g90_g91_influences_extruder at
\* the default of the firmware selected by --firmware-type.
C14_G90DefaultKeepsFirmwareDefault ==
  interp # << >> =>
    LET stored == interp[1].firmware_args.g90_g91_influences_extruder
    IN /\ cl.g90 = "TRUE" => stored = TRUE
       /\ cl.g90 = "FALSE" => stored = FALSE
       /\ cl.g90 = "DEFAULT" => stored \in RequestedG90Defaults

\* C25: in overwrite mode the source file is removed only after process()
\* returned and only with a temporary path obtained: when
\* utilities::get_temp_file_path_for_file failed, the source is neither
\* removed nor replaced.
C25_SourceKeptWithoutTempFile ==
  /\ fs[SourceFile] # InitialFiles[SourceFile] =>
       processed /\ overwrite_source_file /\ temp_file_path # ""
  /\ (overwrite_source_file /\ temp_file_path = "") => fs = InitialFiles

(***************************************************************************)
(* main (ArcWelderInverseProcessor.cpp:50-59) against the ways its call of *)
(* run_arc_straightener can end: the values of the return statements of    *)
(* lines 246, 311, 438 and 522, and an ArgException pointer.               *)
(***************************************************************************)
ReturnValues == {"0", "1"}

run_arc_straightener_returns ==
  /\ pc = "help_parse"
  /\ \E value \in ReturnValues : Return(value)
  /\ UNCHANGED <<cl, args, p_already_set, log_level_value, overwrite_source_file,
                 temp_file_path, ov_i, msg, error, printed, logger, interp,
                 processed, fs>>

run_arc_straightener_throws ==
  /\ pc = "help_parse"
  /\ ThrowNew("Unknown log level", "log_level")
  /\ UNCHANGED <<cl, args, p_already_set, log_level_value, overwrite_source_file,
                 temp_file_path, ov_i, printed, logger, interp, processed, fs>>

DEFAULT_RESOLUTION_MM == 50
ARC_LENGTH_PERCENT_TOLERANCE_DEFAULT == 50
DEFAULT_XYZ_PRECISION == 3
DEFAULT_E_PRECISION == 5
DEFAULT_EXTRUSION_RATE_VARIANCE_PERCENT == 50
DEFAULT_MAX_GCODE_LENGTH == 0
\* DEFAULT_MIN_ARC_SEGMENTS and DEFAULT_MM_PER_ARC_SEGMENT as arc_welder.h,
\* which the console includes, defines them.
WELDER_DEFAULT_MIN_ARC_SEGMENTS == 0
WELDER_DEFAULT_MM_PER_ARC_SEGMENT == 0

\* The largest value supplied for --default-xyz-precision and --default-e-precision.
MaxPrecisionInput == 7
\* The largest number of the four non-fatal settings supplied negative.
MaxNegatives == 1

PROGRESS_TYPE_NONE == "NONE"
PROGRESS_TYPE_SIMPLE == "SIMPLE"
PROGRESS_TYPE_FULL == "FULL"

\* A value argument that is 0 when it is not supplied, whatever its default.
arg_getValue_or_zero(a, default) == IF a = << >> THEN 0 ELSE a[1]

\* A value argument of the console's command line is << >> when it is not
\* supplied and <<v>> when it is supplied with the value v.
arg_getValue(a, default) == IF a = << >> THEN default ELSE a[1]

NonFatalSettings ==
  {"min_arc_segments", "mm_per_arc_segment", "extrusion_rate_variance_percent",
   "max_gcode_length"}

ConsoleCommandLines ==
  [positional : { << >>, <<SourceFile>>, <<SourceFile, OtherFile>> },
   resolution : { << >>, <<-10>>, <<0>> },
   path_tolerance_percent : { << >>, <<-10>>, <<300>> },
   default_xyz_precision : { << >> } \cup { <<n>> : n \in 0..MaxPrecisionInput },
   default_e_precision : { << >> } \cup { <<n>> : n \in 0..MaxPrecisionInput },
   negative : { s \in SUBSET NonFatalSettings : Cardinality(s) <= MaxNegatives },
   allow_travel_arcs : BOOLEAN,
   progress_type : {PROGRESS_TYPE_NONE, PROGRESS_TYPE_SIMPLE, PROGRESS_TYPE_FULL},
   log_level : {"UNSET", "", "BOGUS"}]

VARIABLES
  ccl,                  \* the console's command line (argv)
  cpc,                  \* where the console's main is
  wargs,                \* main's arc_welder_args args, the fields main sets
  has_error,
  progress_type,
  clog_level_value,     \* main's log_level_value
  cexit,                \* the exit status of the console
  cmsg,                 \* the messages written to stdout, stderr and the log
  p_logger,             \* a logger was created
  p_arc_welder,         \* << >> or <<the args arc_welder was constructed with>>
  results               \* << >> or <<what p_arc_welder->process() returned>>

con_vars == <<ccl, cpc, wargs, has_error, progress_type, clog_level_value, cexit,
              cmsg, p_logger, p_arc_welder, results>>

\* arc_welder_args(): the fields main reads or sets.
arc_welder_args ==
  [source_path |-> "", target_path |-> "",
   resolution_mm |-> DEFAULT_RESOLUTION_MM,
   path_tolerance_percent |-> ARC_LENGTH_PERCENT_TOLERANCE_DEFAULT,
   min_arc_segments |-> WELDER_DEFAULT_MIN_ARC_SEGMENTS,
   mm_per_arc_segment |-> WELDER_DEFAULT_MM_PER_ARC_SEGMENT,
   allow_travel_arcs |-> FALSE,
   default_xyz_precision |-> DEFAULT_XYZ_PRECISION,
   default_e_precision |-> DEFAULT_E_PRECISION,
   extrusion_rate_variance_percent |-> DEFAULT_EXTRUSION_RATE_VARIANCE_PERCENT,
   max_gcode_length |-> DEFAULT_MAX_GCODE_LENGTH,
   callback |-> "NULL"]

\* The state main starts in, for one of the given command lines.
ConStart(command_lines) ==
  /\ ccl \in command_lines
  /\ cpc = "parse"
  /\ wargs = arc_welder_args
  /\ has_error = FALSE
  /\ progress_type = ""
  /\ clog_level_value = -1
  /\ cexit = "running"
  /\ cmsg = {}
  /\ p_logger = FALSE
  /\ p_arc_welder = << >>
  /\ results = << >>

ConInit == ConStart(ConsoleCommandLines)

\* Line 203: cmd.parse exits with status 1 when <source> is missing or a
\* value is outside its constraint.
ConParse ==
  /\ cpc = "parse"
  /\ IF Len(ccl.positional) = 0 \/ ccl.log_level = "BOGUS"
     THEN /\ cpc' = "done"
          /\ cexit' = "1"
          /\ cmsg' = cmsg \cup {"PARSE ERROR"}
     ELSE /\ cpc' = "validate"
          /\ UNCHANGED <<cexit, cmsg>>
  /\ UNCHANGED <<ccl, wargs, has_error, progress_type, clog_level_value, p_logger,
                 p_arc_welder, results>>

\* The resolution is negative.
resolution_is_negative(resolution_mm) == resolution_mm < 0

\* Line 233: the resolution is an error.
resolution_is_error(resolution_mm) == resolution_mm <= 0

\* Line 239: the path tolerance is an error.
path_tolerance_is_error(path_tolerance_percent) == path_tolerance_percent < 0

\* Lines 276-281 and 290-295.
clamp_xyz_precision(xyz_precision) ==
  LET low == IF xyz_precision < 3 THEN 3 ELSE xyz_precision
  IN IF low > 6 THEN 6 ELSE low

\* The upper clamp alone.
clamp_upper_only(e_precision) == IF e_precision > 6 THEN 6 ELSE e_precision

\* Lines 283-288 and 297-302: the lower test is against DEFAULT_E_PRECISION.
clamp_e_precision(e_precision) ==
  LET low == IF e_precision < DEFAULT_E_PRECISION THEN 3 ELSE e_precision
  IN IF low > 6 THEN 6 ELSE low

\* A non-fatal setting stored as it was supplied.
as_supplied(value, replacement) == value

\* Lines 251-263 and 308-320: a negative non-fatal setting is replaced.
nonneg_or(value, replacement) == IF value < 0 THEN replacement ELSE value

\* The value of a non-fatal setting on the command line: -1 when supplied
\* negative, its default otherwise.
setting_getValue(name, default) == IF name \in ccl.negative THEN -1 ELSE default

\* The values of the console's unlabeled arguments <source> and <target>
\* (lines 74-75): the default of <target> is the empty string.
csource_arg_getValue == IF Len(ccl.positional) >= 1 THEN ccl.positional[1] ELSE ""

ctarget_arg_getValue == IF Len(ccl.positional) >= 2 THEN ccl.positional[2] ELSE ""

\* Lines 205-325: the values are read, checked and normalised, and main
\* returns 1 when the resolution or the path tolerance is an error.
ConValidate ==
  /\ cpc = "validate"
  /\ LET resolution_mm == arg_getValue(ccl.resolution, DEFAULT_RESOLUTION_MM)
         \* line 92: the default handed to TCLAP is DEFAULT_RESOLUTION_MM
         path_tolerance_percent ==
           arg_getValue(ccl.path_tolerance_percent, DEFAULT_RESOLUTION_MM)
         xyz_precision == arg_getValue(ccl.default_xyz_precision, DEFAULT_XYZ_PRECISION)
         e_precision == arg_getValue(ccl.default_e_precision, DEFAULT_E_PRECISION)
         min_arc_segments ==
           setting_getValue("min_arc_segments", WELDER_DEFAULT_MIN_ARC_SEGMENTS)
         mm_per_arc_segment ==
           setting_getValue("mm_per_arc_segment", WELDER_DEFAULT_MM_PER_ARC_SEGMENT)
         extrusion_rate_variance_percent ==
           setting_getValue("extrusion_rate_variance_percent",
                            DEFAULT_EXTRUSION_RATE_VARIANCE_PERCENT)
         max_gcode_length == setting_getValue("max_gcode_length", DEFAULT_MAX_GCODE_LENGTH)
         error_found ==
           resolution_is_error(resolution_mm)
             \/ path_tolerance_is_error(path_tolerance_percent)
     IN /\ wargs' =
             [wargs EXCEPT
                !.source_path = csource_arg_getValue,
                !.target_path = target_path_or_source(ctarget_arg_getValue,
                                                      csource_arg_getValue),
                !.resolution_mm = resolution_mm,
                !.path_tolerance_percent = path_tolerance_percent,
                !.allow_travel_arcs = ccl.allow_travel_arcs,
                !.min_arc_segments = nonneg_or(min_arc_segments, 0),
                !.mm_per_arc_segment = nonneg_or(mm_per_arc_segment, 0),
                !.default_xyz_precision = clamp_xyz_precision(xyz_precision),
                !.default_e_precision = clamp_e_precision(e_precision),
                !.extrusion_rate_variance_percent =
                   nonneg_or(extrusion_rate_variance_percent,
                             DEFAULT_EXTRUSION_RATE_VARIANCE_PERCENT),
                !.max_gcode_length = nonneg_or(max_gcode_length, DEFAULT_MAX_GCODE_LENGTH)]
        /\ progress_type' = ccl.progress_type
        /\ has_error' = error_found
        /\ cmsg' = cmsg
             \cup (IF resolution_is_error(resolution_mm)
                   THEN {"error: The provided resolution"} ELSE {})
             \cup (IF path_tolerance_is_error(path_tolerance_percent)
                   THEN {"error: The provided path tolerance percentage"} ELSE {})
             \cup {"warning: " \o n : n \in ccl.negative}
             \cup (IF path_tolerance_percent > 250
                   THEN {"warning: path tolerance percent greater than 0.25"} ELSE {})
             \cup (IF path_tolerance_percent < 1 /\ path_tolerance_percent > 0
                   THEN {"warning: path tolerance percent less than 0.001"} ELSE {})
             \cup (IF xyz_precision < 3 \/ xyz_precision > 6
                   THEN {"warning: default_xyz_precision"} ELSE {})
             \cup (IF e_precision < DEFAULT_E_PRECISION \/ e_precision > 6
                   THEN {"warning: default_e_precision"} ELSE {})
        /\ cpc' = IF error_found THEN "done" ELSE "log_level"
        /\ cexit' = IF error_found THEN "1" ELSE cexit
  /\ UNCHANGED <<ccl, clog_level_value, p_logger, p_arc_welder, results>>

\* Lines 327-339: an unknown level throws an ArgException pointer, which the
\* handler of line 343 (ArgException&) does not catch: nothing in main does,
\* and the process is terminated.
ConLogLevel ==
  /\ cpc = "log_level"
  /\ LET log_level_string == IF ccl.log_level = "UNSET" THEN "INFO" ELSE ccl.log_level
     IN IF log_level_lookup(log_level_string) = -1
        THEN /\ cpc' = "done"
             /\ cexit' = "abort"
             /\ UNCHANGED clog_level_value
        ELSE /\ clog_level_value' = log_level_lookup(log_level_string)
             /\ cpc' = "setup"
             /\ UNCHANGED cexit
  /\ UNCHANGED <<ccl, wargs, has_error, progress_type, cmsg, p_logger, p_arc_welder,
                 results>>

\* Lines 361-373: the callback the progress type selects.
callback_for(type) ==
  IF type = PROGRESS_TYPE_NONE THEN "on_progress_suppress"
  ELSE IF type = PROGRESS_TYPE_FULL THEN "on_progress_full"
  ELSE "on_progress_simple"

\* Lines 349-384: the logger and the progress callback.
ConSetup ==
  /\ cpc = "setup"
  /\ p_logger' = TRUE
  /\ wargs' = [wargs EXCEPT !.callback = callback_for(progress_type)]
  /\ cmsg' = cmsg \cup {"Processing GCode."}
  /\ cpc' = "construct"
  /\ UNCHANGED <<ccl, has_error, progress_type, clog_level_value, cexit,
                 p_arc_welder, results>>

\* Line 386: p_arc_welder = new arc_welder(args).
ConConstruct ==
  /\ cpc = "construct"
  /\ p_arc_welder' = <<wargs>>
  /\ cpc' = "process"
  /\ UNCHANGED <<ccl, wargs, has_error, progress_type, clog_level_value, cexit,
                 cmsg, p_logger, results>>

\* A callback that asks the engine to stop.
on_progress_stop(progress) == FALSE

\* Lines 433-450: the three progress callbacks print, or not, and return true.
on_progress_full(progress) == TRUE

on_progress_simple(progress) == TRUE

on_progress_suppress(progress) == TRUE

\* The engine's call of args.callback with a progress.
invoke_callback(callback, progress) ==
  CASE callback = "on_progress_full" -> on_progress_full(progress)
    [] callback = "on_progress_simple" -> on_progress_simple(progress)
    [] callback = "on_progress_suppress" -> on_progress_suppress(progress)

\* The progress the engine reports: the percent complete.
ProgressValues == {0, 50, 100}

\* Line 388: p_arc_welder->process() calls the callback with its progress
\* and returns its results: success or not, and the travel statistics, of
\* which main compares the two total counts. callback_returned is what the
\* callback answered during the run.
ConProcess ==
  /\ cpc = "process"
  /\ \E success \in BOOLEAN, travel_counts_equal \in BOOLEAN :
       results' = <<[success |-> success, travel_counts_equal |-> travel_counts_equal,
                     callback_returned |->
                       {invoke_callback(p_arc_welder[1].callback, progress) :
                          progress \in ProgressValues}]>>
  /\ cpc' = "report"
  /\ UNCHANGED <<ccl, wargs, has_error, progress_type, clog_level_value, cexit,
                 cmsg, p_logger, p_arc_welder>>

\* The travel statistics as a table, whatever the counts.
travel_statistics_table(r) == {"Target File Travel Statistics"}

\* Lines 395-402: the travel statistics logged for the results r.
travel_statistics_report(r) ==
  IF r.travel_counts_equal
  THEN {"Target File Travel Statistics: No travel arcs converted."}
  ELSE {"Target File Travel Statistics"}

\* An exit status that tells a failed run from a successful one.
status_of_success(r) == IF r.success THEN "0" ELSE "1"

\* Line 430: return 0, after either branch of if (results.success).
return_after_report(r) == "0"

\* Lines 389-430: the report of the results, and return 0.
ConReport ==
  /\ cpc = "report"
  /\ cmsg' = cmsg \cup
       (IF results[1].success
        THEN (IF wargs.allow_travel_arcs
              THEN travel_statistics_report(results[1])
              ELSE {})
             \cup {"Target File Extrusion Statistics",
                   "Arc Welder process completed successfully."}
        ELSE {"File processing failed."})
  /\ cpc' = "done"
  /\ cexit' = return_after_report(results[1])
  /\ UNCHANGED <<ccl, wargs, has_error, progress_type, clog_level_value, p_logger,
                 p_arc_welder, results>>

(***************************************************************************)
(* Properties of the welding console.                                      *)
(***************************************************************************)
\* The values of --resolution-mm and --path-tolerance-percent the command line gives.
GivenResolution == arg_getValue(ccl.resolution, DEFAULT_RESOLUTION_MM)

GivenPathTolerance == arg_getValue(ccl.path_tolerance_percent, DEFAULT_RESOLUTION_MM)

\* C4: arc_welder is constructed, and process() called, only with
\* resolution_mm > 0 and path_tolerance_percent >= 0; a command line that
\* parses and gives resolution_mm <= 0 or path_tolerance_percent < 0 gets an
\* error message for each offending value and exit status 1, with no
\* arc_welder constructed.
C4_InvalidToleranceFailsFast ==
  /\ p_arc_welder # << >> =>
       /\ p_arc_welder[1].resolution_mm > 0
       /\ p_arc_welder[1].path_tolerance_percent >= 0
       /\ GivenResolution > 0
       /\ GivenPathTolerance >= 0
  /\ (cpc \notin {"parse", "validate"} /\ "PARSE ERROR" \notin cmsg
        /\ (GivenResolution <= 0 \/ GivenPathTolerance < 0)) =>
       /\ cpc = "done"
       /\ cexit = "1"
       /\ p_arc_welder = << >>
       /\ results = << >>
       /\ GivenResolution <= 0 => "error: The provided resolution" \in cmsg
       /\ GivenPathTolerance < 0 =>
            "error: The provided path tolerance percentage" \in cmsg

\* A run refused for a resolution of 0 and a negative path tolerance.
C4_Witness ==
  /\ cpc = "done"
  /\ cexit = "1"
  /\ GivenResolution = 0
  /\ GivenPathTolerance < 0
  /\ "error: The provided resolution" \in cmsg

\* C5: the precisions stored in args before arc_welder is constructed lie in 3..6.
C5_PrecisionsClamped ==
  cpc \notin {"parse", "validate"} /\ "PARSE ERROR" \notin cmsg =>
    /\ wargs.default_xyz_precision \in 3..6
    /\ wargs.default_e_precision \in 3..6
    /\ p_arc_welder # << >> =>
         /\ p_arc_welder[1].default_xyz_precision \in 3..6
         /\ p_arc_welder[1].default_e_precision \in 3..6

\* arc_welder constructed from a command line giving the precisions 0 and MaxPrecisionInput.
C5_Witness ==
  /\ p_arc_welder # << >>
  /\ ccl.default_xyz_precision = <<0>>
  /\ ccl.default_e_precision = <<MaxPrecisionInput>>
  /\ p_arc_welder[1].default_xyz_precision = 3
  /\ p_arc_welder[1].default_e_precision = 6

\* C16: a run whose results are not a success ends with the statistics
\* accumulated so far reported to the user, and with an indication that it
\* did not succeed.
C16_FailedRunReportsStatistics ==
  (cpc = "done" /\ results # << >> /\ ~results[1].success) =>
    /\ "File processing failed." \in cmsg
    /\ "Arc Welder process completed successfully." \notin cmsg
    /\ "Target File Extrusion Statistics" \in cmsg

\* C17 as stated: every successful run logs the extrusion statistics and
\* reports the travel statistics, as the sentence 'No travel arcs converted'
\* exactly when the two travel counts are equal and as a table otherwise.
C17_SuccessReportsTravelStatistics ==
  (cpc = "done" /\ results # << >> /\ results[1].success) =>
    /\ "Target File Extrusion Statistics" \in cmsg
    /\ "Target File Travel Statistics: No travel arcs converted." \in cmsg
         <=> results[1].travel_counts_equal
    /\ "Target File Travel Statistics" \in cmsg <=> ~results[1].travel_counts_equal

\* C17: every successful run logs the extrusion statistics; with
\* --allow-travel-arcs it also reports the travel statistics, as the
\* sentence 'No travel arcs converted' exactly when the two travel counts
\* are equal and as a table otherwise; without it no travel statistics are
\* reported.
C17_SuccessReportsStatistics ==
  (cpc = "done" /\ results # << >> /\ results[1].success) =>
    /\ "Target File Extrusion Statistics" \in cmsg
    /\ "Arc Welder process completed successfully." \in cmsg
    /\ p_arc_welder[1].allow_travel_arcs =>
         /\ "Target File Travel Statistics: No travel arcs converted." \in cmsg
              <=> results[1].travel_counts_equal
         /\ "Target File Travel Statistics" \in cmsg <=> ~results[1].travel_counts_equal
    /\ ~p_arc_welder[1].allow_travel_arcs =>
         /\ "Target File Travel Statistics: No travel arcs converted." \notin cmsg
         /\ "Target File Travel Statistics" \notin cmsg

\* A successful run with travel arcs allowed and none converted.
C17_Witness ==
  /\ cpc = "done"
  /\ cexit = "0"
  /\ results # << >>
  /\ results[1].success
  /\ results[1].travel_counts_equal
  /\ p_arc_welder[1].allow_travel_arcs
  /\ "Target File Travel Statistics: No travel arcs converted." \in cmsg

\* C18: the callback handed to arc_welder is on_progress_suppress for the
\* progress type NONE, on_progress_full for FULL and on_progress_simple for
\* any other, and whatever the progress it is called with it answers true:
\* the console never asks the engine to stop.
C18_CallbackNeverSignalsStop ==
  /\ p_arc_welder # << >> =>
       /\ ccl.progress_type = PROGRESS_TYPE_NONE =>
            p_arc_welder[1].callback = "on_progress_suppress"
       /\ ccl.progress_type = PROGRESS_TYPE_FULL =>
            p_arc_welder[1].callback = "on_progress_full"
       /\ ccl.progress_type \notin {PROGRESS_TYPE_NONE, PROGRESS_TYPE_FULL} =>
            p_arc_welder[1].callback = "on_progress_simple"
  /\ results # << >> => results[1].callback_returned = {TRUE}

\* A run with full progress messages: the engine called on_progress_full
\* and was told to continue every time.
C18_Witness ==
  /\ results # << >>
  /\ ccl.progress_type = PROGRESS_TYPE_FULL
  /\ p_arc_welder[1].callback = "on_progress_full"
  /\ results[1].callback_returned = {TRUE}

replacement_of(name) ==
  CASE name = "min_arc_segments" -> 0
    [] name = "mm_per_arc_segment" -> 0
    [] name = "extrusion_rate_variance_percent" -> DEFAULT_EXTRUSION_RATE_VARIANCE_PERCENT
    [] name = "max_gcode_length" -> DEFAULT_MAX_GCODE_LENGTH

\* C23: a negative min_arc_segments, mm_per_arc_segment,
\* extrusion_rate_variance_percent or max_gcode_length never sets has_error
\* and never ends the run with status 1; the four values of the args given
\* to arc_welder are >= 0, a negative one replaced by 0, 0,
\* DEFAULT_EXTRUSION_RATE_VARIANCE_PERCENT and DEFAULT_MAX_GCODE_LENGTH.
C23_NegativeSettingsNormalised ==
  (cpc \notin {"parse", "validate"} /\ "PARSE ERROR" \notin cmsg) =>
    /\ has_error <=> (GivenResolution <= 0 \/ GivenPathTolerance < 0)
    /\ ~has_error => cexit # "1"
    /\ \A name \in NonFatalSettings :
         /\ wargs[name] >= 0
         /\ name \in ccl.negative => wargs[name] = replacement_of(name)
         /\ p_arc_welder # << >> =>
              /\ p_arc_welder[1][name] >= 0
              /\ name \in ccl.negative => p_arc_welder[1][name] = replacement_of(name)

\* arc_welder constructed from a command line with a negative
\* --extrusion-rate-variance-percent.
C23_Witness ==
  /\ p_arc_welder # << >>
  /\ "extrusion_rate_variance_percent" \in ccl.negative
  /\ ~has_error
  /\ "warning: extrusion_rate_variance_percent" \in cmsg
  /\ p_arc_welder[1].extrusion_rate_variance_percent =
       DEFAULT_EXTRUSION_RATE_VARIANCE_PERCENT

\* The clamp to [3,6]: the identity on 3..6, 3 below it and 6 above it.
clamp_3_6(precision) ==
  IF precision < 3 THEN 3 ELSE IF precision > 6 THEN 6 ELSE precision

\* C24: a supplied default_xyz_precision or default_e_precision reaches
\* arc_welder clamped to [3,6]: unchanged when it lies in 3..6, 3 when it is
\* below 3 and 6 when it is above 6.
C24_ClampIsIdentityInRange ==
  (cpc \notin {"parse", "validate"} /\ "PARSE ERROR" \notin cmsg) =>
    /\ ccl.default_xyz_precision # << >> =>
         wargs.default_xyz_precision = clamp_3_6(ccl.default_xyz_precision[1])
    /\ ccl.default_e_precision # << >> =>
         wargs.default_e_precision = clamp_3_6(ccl.default_e_precision[1])

\* C27: a run that got as far as process() ends with exit status 0 whether
\* results.success is true or false; the two are told apart by the logged
\* message only: 'File processing failed.' for a failed run and
\* 'Arc Welder process completed successfully.' for a successful one.
C27_FailedRunExitsZero ==
  (cpc = "done" /\ results # << >>) =>
    /\ cexit = "0"
    /\ "File processing failed." \in cmsg <=> ~results[1].success
    /\ "Arc Welder process completed successfully." \in cmsg <=> results[1].success

\* A failed run that ended with exit status 0.
C27_Witness ==
  /\ cpc = "done"
  /\ results # << >>
  /\ ~results[1].success
  /\ cexit = "0"
  /\ "File processing failed." \in cmsg
  /\ ~has_error

\* The console's run went past the validation with a --log-level that is
\* none of log_level_names.
ConsoleLogLevelUnknown ==
  /\ cpc \notin {"rest", "parse", "validate", "log_level"}
  /\ "PARSE ERROR" \notin cmsg
  /\ ~has_error
  /\ log_level_lookup(IF ccl.log_level = "UNSET" THEN "INFO" ELSE ccl.log_level) = -1

\* C28: in both programs a --log-level that matches no entry of
\* log_level_names is an argument error: the exception is caught by a handler
\* of the program, which ends with the non-zero status the handler returns,
\* and no logger, arc_welder or arc_interpolation is created and no file is
\* processed.
C28_UnknownLogLevelIsHandled ==
  /\ error = "log_level" =>
       /\ pc = "done"
       /\ exit_status \in {"1", "-1"}
       /\ ~logger
       /\ NoProcessing
  /\ ConsoleLogLevelUnknown =>
       /\ cpc = "done"
       /\ cexit \in {"1", "-1"}
       /\ p_logger = FALSE
       /\ p_arc_welder = << >>
       /\ results = << >>

(***************************************************************************)
(* The arc fitting engine (arc_welder::process), a state machine over the  *)
(* commands of the input stream.  A command is named by its index in the   *)
(* stream.  Whether the bounds hold for a tentatively absorbed segment,    *)
(* and the fit of a candidate when it is decided, are outcomes of the      *)
(* geometry and are chosen freely.                                         *)
(***************************************************************************)
\* The number of commands of the input stream.
MaxInput == 5

IDLE == "IDLE"
GROWING == "GROWING"

VARIABLES
  engine_state,    \* IDLE or GROWING
  candidate,       \* the absorbed segments of the open CandidateArc, in order
  consumed,        \* the number of input commands read
  emitted,         \* the commands written to the output, in order
  arcs_committed,  \* RunStatistics: the candidates committed
  arcs_rejected,   \* RunStatistics: the candidates rejected at the closing check
  ended,           \* the run is over: the open candidate was flushed
  stop_requested,  \* the progress callback answered stop and the run is not over yet
  eng_results,     \* << >> or <<the result object returned at the end of the run>>
  fits             \* the fit of every decided candidate of 2 segments or more, in order

eng_vars == <<engine_state, candidate, consumed, emitted, arcs_committed,
              arcs_rejected, ended, stop_requested, eng_results, fits>>

EngInit ==
  /\ engine_state = IDLE
  /\ candidate = << >>
  /\ consumed = 0
  /\ emitted = << >>
  /\ arcs_committed = 0
  /\ arcs_rejected = 0
  /\ ended = FALSE
  /\ stop_requested = FALSE
  /\ eng_results = << >>
  /\ fits = << >>

\* The tolerance of an arc of the given chord length:
\* max(resolution_mm, path_tolerance_percent x chord_length), in thousandths
\* of a millimetre, for the default resolution and path tolerance.
tolerance(chord_length) ==
  LET by_length == (ARC_LENGTH_PERCENT_TOLERANCE_DEFAULT * chord_length) \div 1000
  IN IF DEFAULT_RESOLUTION_MM >= by_length THEN DEFAULT_RESOLUTION_MM ELSE by_length

\* The fits a candidate can have when it is decided: the chord length, the
\* largest deviation of the absorbed segments from the fitted circle (within
\* tolerance, every absorbed segment having met the geometric bound), and
\* what the rounding of the emitted values adds to it.
CandidateFits ==
  { f \in [chord_length : {500, 2000}, raw_deviation : {40, 90},
            rounding_error : {0, 20}] :
      f.raw_deviation <= tolerance(f.chord_length) }

\* The fit of a candidate that holds no arc.
NoFit == [chord_length |-> 0, raw_deviation |-> 0, rounding_error |-> 0]

FitsOf(segments) == IF Len(segments) >= 2 THEN CandidateFits ELSE {NoFit}

\* The largest deviation of the absorbed segments from the arc as emitted.
as_emitted_deviation(fit) == fit.raw_deviation + fit.rounding_error

\* The tolerance check on the raw fit, before the values are rounded.
check_before_rounding(fit) == fit.raw_deviation <= tolerance(fit.chord_length)

\* The closing check of a commit: the arc is validated again with the values
\* as emitted.
closing_check(fit) == as_emitted_deviation(fit) <= tolerance(fit.chord_length)

\* The absorbed segments re-emitted verbatim as line commands.
lines_of(segments) ==
  [k \in 1..Len(segments) |-> [kind |-> "line", segments |-> <<segments[k]>>]]

\* Both the arc and the lines of a candidate: a commit that does not discard.
commit_keeping_lines(segments, closing_check_passes) ==
  <<[kind |-> "arc", segments |-> segments]>> \o lines_of(segments)

\* A commit of whatever passes the closing check, a single segment included.
commit_any_length(segments, closing_check_passes) ==
  Len(segments) >= 1 /\ closing_check_passes

\* A candidate is committed when it holds at least 2 segments and the arc as
\* emitted is within tolerance.
is_committed(segments, closing_check_passes) ==
  Len(segments) >= 2 /\ closing_check_passes

\* The commit/reject decision: one arc command for the candidate, or its
\* segments verbatim.
decide(segments, closing_check_passes) ==
  IF is_committed(segments, closing_check_passes)
  THEN <<[kind |-> "arc", segments |-> segments]>>
  ELSE lines_of(segments)

\* Nothing is written for the open candidate.
drop_candidate(segments, closing_check_passes) == << >>

\* What the end of the stream writes for the open candidate.
end_of_stream_output(segments, closing_check_passes) ==
  decide(segments, closing_check_passes)

\* Nothing is written for the candidate that is open when stop is received.
abandon_candidate(segments, closing_check_passes) == << >>

\* What a stop writes for the open candidate: what the end of the stream does.
flush_on_stop(segments, closing_check_passes) ==
  end_of_stream_output(segments, closing_check_passes)

\* The result object: the success flag and the RunStatistics as accumulated.
run_results(success, committed, rejected) ==
  <<[success |-> success, arcs_committed |-> committed, arcs_rejected |-> rejected]>>

\* The statistics after a decision on a candidate, and its fit.
CountDecision(segments, fit) ==
  /\ arcs_committed' = arcs_committed
       + (IF is_committed(segments, closing_check(fit)) THEN 1 ELSE 0)
  /\ arcs_rejected' = arcs_rejected
       + (IF Len(segments) >= 2 /\ ~closing_check(fit) THEN 1 ELSE 0)
  /\ fits' = IF Len(segments) >= 2
             THEN Append(fits, [segments |-> segments, fit |-> fit])
             ELSE fits

\* IDLE, a segment arrives: a candidate is opened at it and absorbs it.
OpenCandidate ==
  /\ ~ended /\ ~stop_requested /\ consumed < MaxInput
  /\ engine_state = IDLE
  /\ consumed' = consumed + 1
  /\ candidate' = <<consumed + 1>>
  /\ engine_state' = GROWING
  /\ UNCHANGED <<emitted, arcs_committed, arcs_rejected, ended, stop_requested,
                 eng_results, fits>>

\* GROWING, a segment arrives and every bound holds: it is absorbed.
AbsorbSegment ==
  /\ ~ended /\ ~stop_requested /\ consumed < MaxInput
  /\ engine_state = GROWING
  /\ consumed' = consumed + 1
  /\ candidate' = Append(candidate, consumed + 1)
  /\ UNCHANGED <<engine_state, emitted, arcs_committed, arcs_rejected, ended,
                 stop_requested, eng_results, fits>>

\* GROWING, a segment arrives and a bound fails: the candidate as built up to
\* the failing segment is decided, and a new candidate opens at the failing
\* segment. The progress callback is called at this boundary and answers
\* continue or stop.
BoundFails ==
  /\ ~ended /\ ~stop_requested /\ consumed < MaxInput
  /\ engine_state = GROWING
  /\ \E fit \in FitsOf(candidate) :
       /\ emitted' = emitted \o decide(candidate, closing_check(fit))
       /\ CountDecision(candidate, fit)
  /\ consumed' = consumed + 1
  /\ candidate' = <<consumed + 1>>
  /\ \E continue_processing \in BOOLEAN : stop_requested' = ~continue_processing
  /\ UNCHANGED <<engine_state, ended, eng_results>>

\* A command that is not a fittable segment arrives: the open candidate is
\* decided, and the command is passed through after it. The progress
\* callback is called at this boundary and answers continue or stop.
PassThrough ==
  /\ ~ended /\ ~stop_requested /\ consumed < MaxInput
  /\ \E fit \in FitsOf(candidate) :
       /\ emitted' = emitted \o decide(candidate, closing_check(fit))
                       \o <<[kind |-> "other", segments |-> <<consumed + 1>>]>>
       /\ CountDecision(candidate, fit)
  /\ consumed' = consumed + 1
  /\ candidate' = << >>
  /\ engine_state' = IDLE
  /\ \E continue_processing \in BOOLEAN : stop_requested' = ~continue_processing
  /\ UNCHANGED <<ended, eng_results>>

\* The end of the stream forces the decision on the open candidate, and the
\* run returns its statistics as a success.
EndOfStream ==
  /\ ~ended /\ ~stop_requested
  /\ \E fit \in FitsOf(candidate) :
       /\ emitted' = emitted \o end_of_stream_output(candidate, closing_check(fit))
       /\ CountDecision(candidate, fit)
  /\ candidate' = << >>
  /\ engine_state' = IDLE
  /\ ended' = TRUE
  /\ eng_results' = run_results(TRUE, arcs_committed', arcs_rejected')
  /\ UNCHANGED <<consumed, stop_requested>>

\* Stop was received: the open candidate is flushed as at the end of the
\* stream, nothing more is read, and the run returns its statistics as
\* accumulated, not as a success.
Cancel ==
  /\ ~ended /\ stop_requested
  /\ \E fit \in FitsOf(candidate) :
       /\ emitted' = emitted \o flush_on_stop(candidate, closing_check(fit))
       /\ CountDecision(candidate, fit)
  /\ candidate' = << >>
  /\ engine_state' = IDLE
  /\ ended' = TRUE
  /\ stop_requested' = FALSE
  /\ eng_results' = run_results(FALSE, arcs_committed', arcs_rejected')
  /\ UNCHANGED consumed

(***************************************************************************)
(* Properties of the fitting engine.                                       *)
(***************************************************************************)
RECURSIVE Flatten(_)
\* The input commands the emitted commands stand for, in the order emitted.
Flatten(commands) ==
  IF commands = << >> THEN << >>
  ELSE commands[1].segments \o Flatten(Tail(commands))

\* C8: the number of emitted commands never exceeds the number of input
\* commands consumed.
C8_NonExpansion == Len(emitted) <= consumed

\* A finished run with a committed arc, a rejected candidate, and fewer
\* commands out than in.
C8_Witness ==
  /\ ended
  /\ consumed >= 4
  /\ arcs_committed >= 1
  /\ arcs_rejected >= 1
  /\ Len(emitted) < consumed

\* C9: once the end of the stream is processed no candidate is open, the
\* engine is IDLE, and the emitted commands stand for every consumed command
\* exactly once, in input order.
C9_EndOfStreamLeavesNoCandidate ==
  ended =>
    /\ engine_state = IDLE
    /\ candidate = << >>
    /\ Flatten(emitted) = [k \in 1..consumed |-> k]

\* The end of the stream committed a candidate that was still open: the last
\* emitted command is an arc that ends at the last command read.
C9_Witness ==
  /\ ended
  /\ consumed >= 3
  /\ emitted # << >>
  /\ emitted[Len(emitted)].kind = "arc"
  /\ emitted[Len(emitted)].segments[Len(emitted[Len(emitted)].segments)] = consumed
  /\ \E k \in 1..Len(emitted) : emitted[k].kind = "line"

\* C19: no emitted arc stands for fewer than 2 segments; and when the
\* candidate holds a single segment and is decided (a bound fails, or the
\* stream ends), that segment is emitted verbatim as a line command, and
\* after a failed bound the new candidate is open at the failing segment.
C19_NoArcFromASingleSegment ==
  /\ [](\A k \in 1..Len(emitted) :
          emitted[k].kind = "arc" => Len(emitted[k].segments) >= 2)
  /\ [][(Len(candidate) = 1 /\ Len(emitted') > Len(emitted)) =>
          /\ emitted'[Len(emitted) + 1] = [kind |-> "line", segments |-> candidate]
          /\ (consumed' = consumed + 1 /\ engine_state' = GROWING) =>
               candidate' = <<consumed + 1>>]_eng_vars

\* The bound failed at the second command with only the first one absorbed:
\* the first is emitted as a line and the candidate is open at the second.
C19_Witness ==
  /\ consumed = 2
  /\ emitted = <<[kind |-> "line", segments |-> <<1>>]>>
  /\ candidate = <<2>>
  /\ engine_state = GROWING

\* C20: a stop is taken only in a step that decided the open candidate (a
\* commit/reject boundary: everything read is emitted but for a candidate
\* just opened); the step after a stop reads nothing, flushes the open
\* candidate as the end of the stream does, and returns the statistics as
\* accumulated with success false; and a run that is over reads and writes
\* nothing more.
C20_StopIsHonouredAtABoundary ==
  /\ [][(stop_requested' /\ ~stop_requested) =>
          /\ consumed' = consumed + 1
          /\ Len(candidate') <= 1
          /\ Flatten(emitted') \o candidate' = [k \in 1..consumed' |-> k]]_eng_vars
  /\ [][stop_requested =>
          /\ consumed' = consumed
          /\ ended' /\ ~stop_requested'
          /\ candidate' = << >> /\ engine_state' = IDLE
          /\ \E closing_check_passes \in BOOLEAN :
               emitted' = emitted \o end_of_stream_output(candidate, closing_check_passes)
          /\ Flatten(emitted') = [k \in 1..consumed |-> k]
          /\ eng_results' = <<[success |-> FALSE, arcs_committed |-> arcs_committed',
                               arcs_rejected |-> arcs_rejected']>>]_eng_vars
  /\ [][ended => UNCHANGED <<consumed, emitted, eng_results, arcs_committed,
                             arcs_rejected>>]_eng_vars
  /\ [](eng_results # << >> =>
          /\ ended
          /\ eng_results[1].arcs_committed = arcs_committed
          /\ eng_results[1].arcs_rejected = arcs_rejected)

\* A cancelled run: stop came after a committed arc, with input left unread;
\* the candidate re-opened at the failing segment was flushed as a line.
C20_Witness ==
  /\ ended
  /\ eng_results # << >>
  /\ ~eng_results[1].success
  /\ eng_results[1].arcs_committed >= 1
  /\ consumed < MaxInput
  /\ emitted[Len(emitted)] = [kind |-> "line", segments |-> <<consumed>>]

MaxCalls == 3

\* The length of a quarter circle of radius 1.
QuarterCircle == 1571

FwPositions == [x : 0..2, y : {0}]

FwStates == [is_relative : BOOLEAN, is_extruder_relative : BOOLEAN]

\* G2/G3 commands: i, j with one of them zero, or r > 0, which overrides i
\* and j and is given here for half circles only.
FwArcs ==
  [target : FwPositions, i : -1..1, j : -1..1, r : {0}, is_clockwise : BOOLEAN]
    \cup [target : FwPositions, i : {0}, j : {0}, r : {1}, is_clockwise : BOOLEAN]

\* The arguments the simulator runs with.
FwArguments ==
  [mm_per_arc_segment : {DEFAULT_MM_PER_ARC_SEGMENT},
   min_arc_segments : {DEFAULT_MIN_ARC_SEGMENTS},
   n_arc_correction : {1, 3}]

Abs(n) == IF n < 0 THEN -n ELSE n

CeilDiv(a, b) == (a + b - 1) \div b

\* The radius of an arc started at position.
radius(position, arc) == IF arc.r > 0 THEN arc.r ELSE Abs(arc.i) + Abs(arc.j)

\* Twice the centre of an arc started at position (doubled, to stay integral
\* for the half circle given by r).
centre2(position, arc) ==
  IF arc.r > 0
  THEN [x |-> position.x + arc.target.x, y |-> position.y + arc.target.y]
  ELSE [x |-> 2 * (position.x + arc.i), y |-> 2 * (position.y + arc.j)]

\* The axis on which point lies as seen from the centre: 0, 1, 2, 3 for
\* +x, +y, -x, -y, and -1 when it is not at distance rad on an axis.
axis_of(point, c2, rad) ==
  LET dx == 2 * point.x - c2.x
      dy == 2 * point.y - c2.y
  IN CASE dx = 2 * rad /\ dy = 0 -> 0
       [] dx = 0 /\ dy = 2 * rad -> 1
       [] dx = -2 * rad /\ dy = 0 -> 2
       [] dx = 0 /\ dy = -2 * rad -> 3
       [] OTHER -> -1

\* The arcs of FwArcs that are circles through position and their target.
is_arc_from(position, arc) ==
  LET rad == radius(position, arc)
      c2 == centre2(position, arc)
  IN /\ rad > 0
     /\ arc.r = 0 => (arc.i = 0 \/ arc.j = 0)
     /\ axis_of(position, c2, rad) # -1
     /\ axis_of(arc.target, c2, rad) # -1

\* The angular travel in quarter turns; equal ends are a full circle.
quarter_turns(position, arc) ==
  LET rad == radius(position, arc)
      c2 == centre2(position, arc)
      from == axis_of(position, c2, rad)
      to == axis_of(arc.target, c2, rad)
      ccw == (to - from + 4) % 4
      turns == IF arc.is_clockwise THEN (4 - ccw) % 4 ELSE ccw
  IN IF turns = 0 THEN 4 ELSE turns

\* Segment count policy: the most segments among the length per segment and
\* the minimum per full circle, and at least one.
segment_count(position, arc, fa) ==
  LET turns == quarter_turns(position, arc)
      mm_of_travel == turns * radius(position, arc) * QuarterCircle
      by_length == IF fa.mm_per_arc_segment > 0
                   THEN CeilDiv(mm_of_travel, fa.mm_per_arc_segment) ELSE 1
      by_circle == CeilDiv(fa.min_arc_segments * turns, 4)
      most == IF by_length > by_circle THEN by_length ELSE by_circle
  IN IF most < 1 THEN 1 ELSE most

\* The correction counter a call starts from, when what the previous call
\* left is carried into it.
correction_count_carried(left_by_previous_call, n_arc_correction) ==
  left_by_previous_call

\* The correction counter a call starts from: the drive loop starts it at
\* n_arc_correction.
correction_count_on_entry(left_by_previous_call, n_arc_correction) ==
  n_arc_correction

\* Per-segment math policy: point k is computed with exact sine and cosine
\* when the counter, started at count, runs out at it; n_arc_correction <= 1
\* makes every point exact.
is_exact(k, count, n_arc_correction) ==
  \/ n_arc_correction <= 1
  \/ k >= count /\ (k - count) % n_arc_correction = 0

\* The counter after m points.
correction_count_after(m, count, n_arc_correction) ==
  IF n_arc_correction <= 1 THEN n_arc_correction
  ELSE IF m < count THEN count - m
  ELSE n_arc_correction - ((m - count) % n_arc_correction)

\* Point k of n of the arc: its place on the arc and whether it was computed
\* exactly; point 0 is the start and point n is the target itself.
arc_point(position, arc, k, n, count, n_arc_correction) ==
  IF k = 0 THEN <<position, TRUE>>
  ELSE IF k = n THEN <<arc.target, TRUE>>
  ELSE <<k, is_exact(k, count, n_arc_correction)>>

\* g1_command: the G1 command to point from the point before it, with the
\* coordinates written as the axis modes of state ask.
g1_command(state, before, point) ==
  <<IF state.is_relative THEN <<before, point>> ELSE <<point>>,
    state.is_extruder_relative>>

\* interpolate_arc: the G1 commands for the arc from position.
interpolate_arc(position, state, arc, fa, count) ==
  LET n == segment_count(position, arc, fa)
      point(k) == arc_point(position, arc, k, n, count, fa.n_arc_correction)
  IN [k \in 1..n |-> g1_command(state, point(k - 1), point(k))]

\* The arcs of FwArcs from each position.
arcs_from == [position \in FwPositions |-> {arc \in FwArcs : is_arc_from(position, arc)}]

VARIABLES
  position_,                    \* firmware::position_
  state_,                       \* firmware::state_
  fw_args_,                     \* firmware::args_
  num_arc_segments_generated_,  \* firmware::num_arc_segments_generated_
  correction_count,             \* the correction counter as the last call left it
  fw_calls,                     \* the number of interpolate_arc calls made
  probe,                        \* the position and the arc whose results are compared
  probe_results,                \* the results of interpolating probe: state and commands
  probe_calls,                  \* the number of times probe was interpolated, up to 2
  others_since_probe            \* other arcs were interpolated since the first probe

fw_vars == <<position_, state_, fw_args_, num_arc_segments_generated_,
             correction_count, fw_calls, probe, probe_results, probe_calls,
             others_since_probe>>

\* firmware_position() and firmware_state(), firmware.h 61-64 and 70-76.
FwInit ==
  /\ position_ = [x |-> 0, y |-> 0]
  /\ state_ = [is_relative |-> FALSE, is_extruder_relative |-> FALSE]
  /\ fw_args_ \in FwArguments
  /\ num_arc_segments_generated_ = 0
  /\ correction_count = fw_args_.n_arc_correction
  /\ fw_calls = 0
  /\ probe \in { pr \in [position : {position_}, arc : FwArcs] :
                   pr.arc \in arcs_from[pr.position] }
  /\ probe_results = {}
  /\ probe_calls = 0
  /\ others_since_probe = FALSE

\* firmware.h 339.
set_current_position ==
  /\ \E position \in FwPositions : position_' = position
  /\ UNCHANGED <<state_, fw_args_, num_arc_segments_generated_, correction_count,
                 fw_calls, probe, probe_results, probe_calls, others_since_probe>>

\* firmware.h 345.
set_current_state ==
  /\ \E state \in FwStates : state_' = state
  /\ UNCHANGED <<position_, fw_args_, num_arc_segments_generated_, correction_count,
                 fw_calls, probe, probe_results, probe_calls, others_since_probe>>

\* firmware.h 333: a call of interpolate_arc; the position ends at the target.
InterpolateArc ==
  /\ fw_calls < MaxCalls
  /\ \E arc \in arcs_from[position_] :
       /\ LET count == correction_count_on_entry(correction_count,
                                                 fw_args_.n_arc_correction)
              gcode == interpolate_arc(position_, state_, arc, fw_args_, count)
              is_probe == position_ = probe.position /\ arc = probe.arc
          IN /\ num_arc_segments_generated_' = num_arc_segments_generated_ + Len(gcode)
             /\ correction_count' =
                  correction_count_after(Len(gcode) - 1, count, fw_args_.n_arc_correction)
             /\ probe_results' =
                  IF is_probe
                  THEN probe_results \cup {[state |-> state_, gcode |-> gcode]}
                  ELSE probe_results
             /\ probe_calls' = IF is_probe /\ probe_calls < 2 THEN probe_calls + 1
                               ELSE probe_calls
             /\ others_since_probe' = (others_since_probe \/ (~is_probe /\ probe_calls > 0))
       /\ position_' = arc.target
  /\ fw_calls' = fw_calls + 1
  /\ UNCHANGED <<state_, fw_args_, probe>>

PathPositionals ==
  { <<SourceFile>>, <<SourceFile, "">>, <<SourceFile, SourceFile>>,
    <<SourceFile, OtherFile>> }

PathCommandLines ==
  [positional : PathPositionals,
   firmware_type : {DEFAULT_FIRMWARE_TYPE},
   firmware_version : {DEFAULT_FIRMWARE_VERSION_NAME},
   print : {"absent"},
   overrides : {{}},
   value : {7},
   g90 : {"DEFAULT"},
   log_level : {"UNSET", "DEBUG"}]

ConsolePathCommandLines ==
  [positional : PathPositionals,
   resolution : { << >> },
   path_tolerance_percent : { << >> },
   default_xyz_precision : { << >> },
   default_e_precision : { << >> },
   negative : { {} },
   allow_travel_arcs : BOOLEAN,
   progress_type : {PROGRESS_TYPE_NONE, PROGRESS_TYPE_SIMPLE},
   log_level : {"UNSET"}]

\* The target path a command line asks for: <target> when it is given and
\* not empty, <source> otherwise.
TargetAskedFor(positional) ==
  IF Len(positional) >= 2 /\ positional[2] # "" THEN positional[2] ELSE positional[1]

\* C15: in both programs, without a <target> (or with an empty one)
\* target_path is source_path, so that the source file is the one
\* overwritten; with a <target> target_path is that value; source_path is
\* <source> in both cases.
C15_EmptyTargetIsTheSource ==
  /\ pc \in {"override", "log_level", "setup"} =>
       /\ args.source_path = cl.positional[1]
       /\ args.target_path = TargetAskedFor(cl.positional)
  /\ interp # << >> =>
       /\ interp[1].source_path = cl.positional[1]
       /\ overwrite_source_file <=> TargetAskedFor(cl.positional) = cl.positional[1]
       /\ ~overwrite_source_file => interp[1].target_path = cl.positional[2]
  /\ (cpc \notin {"parse", "validate"} /\ "PARSE ERROR" \notin cmsg) =>
       /\ wargs.source_path = ccl.positional[1]
       /\ wargs.target_path = TargetAskedFor(ccl.positional)
  /\ p_arc_welder # << >> =>
       /\ p_arc_welder[1].source_path = ccl.positional[1]
       /\ p_arc_welder[1].target_path = TargetAskedFor(ccl.positional)

\* The inverse processor was given an empty <target> and holds the source
\* path as its target; the console was given another file as <target> and
\* constructed arc_welder with it.
C15_Witness ==
  /\ pc = "setup"
  /\ cl.positional = <<SourceFile, "">>
  /\ args.target_path = SourceFile
  /\ p_arc_welder # << >>
  /\ ccl.positional = <<SourceFile, OtherFile>>
  /\ p_arc_welder[1].target_path = OtherFile
  /\ p_arc_welder[1].source_path = SourceFile

(***************************************************************************)
(* A firmware_arguments object (firmware.h:84-310) under set_used_arguments *)
(* and the alias setters, for vectors of known and unknown names.          *)
(***************************************************************************)
MaxUsed == 2

UnknownArgument == "not_an_argument"

\* The vectors set_used_arguments is called with: duplicates, any order and
\* names outside all_arguments_ included.
ArgumentVectors ==
  UNION { [1..n -> Range(all_arguments_) \cup {UnknownArgument}] : n \in 0..MaxUsed }

VARIABLES
  fargs,        \* the firmware_arguments object
  used_given,   \* the vector the latest set_used_arguments was called with
  was_set       \* set_used_arguments was called

arg_vars == <<fargs, used_given, was_set>>

\* firmware_arguments().
ArgInit ==
  /\ fargs = firmware_arguments
  /\ used_given = << >>
  /\ was_set = FALSE

SetUsedArguments ==
  /\ \E arguments \in ArgumentVectors :
       /\ fargs' = set_used_arguments(fargs, arguments)
       /\ used_given' = arguments
  /\ was_set' = TRUE

\* firmware.h:188-191: a setter of a value leaves the applicability set alone.
SetMaxArcSegmentMm ==
  /\ \E mm \in {7} : fargs' = set_max_arc_segment_mm(fargs, mm)
  /\ UNCHANGED <<used_given, was_set>>

\* The place of a known name in all_arguments_.
declaration_index(argument_name) ==
  CHOOSE i \in 1..Len(all_arguments_) : all_arguments_[i] = argument_name

\* C29: after set_used_arguments(U), is_argument_used(n) holds exactly for
\* the names of U, get_available_arguments() is U, and get_unused_arguments()
\* is, in declaration order and without repetition, the 11 known names that
\* are not in U: no name is both available and unused, and with only known
\* names in U every known name is in exactly one of the two lists. A freshly
\* constructed object has an empty applicability set and all 11 names unused.
C29_UsedAndUnusedPartition ==
  LET unused == get_unused_arguments(fargs)
      known == Range(all_arguments_)
  IN /\ Cardinality(known) = 11
     /\ \A n \in known \cup {UnknownArgument} :
          is_argument_used(fargs, n) <=> n \in Range(used_given)
     /\ get_available_arguments(fargs) = used_given
     /\ Range(unused) = known \ Range(used_given)
     /\ \A i, j \in 1..Len(unused) :
          i < j => declaration_index(unused[i]) < declaration_index(unused[j])
     /\ Range(unused) \cap Range(get_available_arguments(fargs)) = {}
     /\ Range(used_given) \subseteq known =>
          \A n \in known : (n \in Range(unused)) # (n \in Range(used_given))
     /\ ~was_set =>
          /\ get_available_arguments(fargs) = << >>
          /\ unused = all_arguments_

\* set_used_arguments gave a known name twice, after a setter ran.
C29_Witness ==
  /\ was_set
  /\ used_given = <<"mm_max_arc_error", "mm_max_arc_error">>
  /\ fargs.mm_per_arc_segment # DEFAULT_MM_PER_ARC_SEGMENT
  /\ Len(get_unused_arguments(fargs)) = 10
  /\ get_unused_arguments(fargs)[8] = "min_circle_segments"

(***************************************************************************)
(* The specifications: one per program, the others at rest, and one of     *)
(* the two programs side by side.                                          *)
(***************************************************************************)
vars == <<inv_vars, con_vars, eng_vars, fw_vars, arg_vars>>

InvRest ==
  /\ cl = "none" /\ pc = "rest" /\ args = "none" /\ p_already_set = FALSE
  /\ log_level_value = -1 /\ overwrite_source_file = FALSE
  /\ temp_file_path = "" /\ ov_i = 0 /\ ret = "none" /\ exit_status = "none"
  /\ msg = {} /\ error = "none" /\ printed = << >> /\ logger = FALSE
  /\ interp = << >> /\ processed = FALSE /\ fs = {}

ConRest ==
  /\ ccl = "none" /\ cpc = "rest" /\ wargs = "none" /\ has_error = FALSE
  /\ progress_type = "" /\ clog_level_value = -1 /\ cexit = "none"
  /\ cmsg = {} /\ p_logger = FALSE /\ p_arc_welder = << >> /\ results = << >>

EngRest ==
  /\ engine_state = IDLE /\ candidate = << >> /\ consumed = MaxInput
  /\ emitted = << >> /\ arcs_committed = 0 /\ arcs_rejected = 0 /\ ended = TRUE
  /\ stop_requested = FALSE /\ eng_results = << >> /\ fits = << >>

FwRest ==
  /\ position_ = "none" /\ state_ = "none" /\ fw_args_ = "none"
  /\ num_arc_segments_generated_ = 0 /\ correction_count = 0
  /\ fw_calls = MaxCalls /\ probe = "none" /\ probe_results = {}
  /\ probe_calls = 0 /\ others_since_probe = FALSE

ArgRest == fargs = "none" /\ used_given = << >> /\ was_set = FALSE

\* ArcWelderInverseProcessor.
Init == InvInit /\ ConRest /\ EngRest /\ FwRest /\ ArgRest

OutsideInverse == <<con_vars, eng_vars, fw_vars, arg_vars>>

Next ==
  \/ HelpParse /\ UNCHANGED OutsideInverse
  \/ CmdParse /\ UNCHANGED OutsideInverse
  \/ ValidateVersion /\ UNCHANGED OutsideInverse
  \/ FetchDefaults /\ UNCHANGED OutsideInverse
  \/ CheckSource /\ UNCHANGED OutsideInverse
  \/ ApplyOverride /\ UNCHANGED OutsideInverse
  \/ ResolveLogLevel /\ UNCHANGED OutsideInverse
  \/ Setup /\ UNCHANGED OutsideInverse
  \/ Construct /\ UNCHANGED OutsideInverse
  \/ Process /\ UNCHANGED OutsideInverse
  \/ RemoveSource /\ UNCHANGED OutsideInverse
  \/ RenameTemp /\ UNCHANGED OutsideInverse
  \/ Finish /\ UNCHANGED OutsideInverse

Spec == Init /\ [][Next]_vars

\* ArcWelderConsole.
InitConsole == ConInit /\ InvRest /\ EngRest /\ FwRest /\ ArgRest

OutsideConsole == <<inv_vars, eng_vars, fw_vars, arg_vars>>

NextConsole ==
  \/ ConParse /\ UNCHANGED OutsideConsole
  \/ ConValidate /\ UNCHANGED OutsideConsole
  \/ ConLogLevel /\ UNCHANGED OutsideConsole
  \/ ConSetup /\ UNCHANGED OutsideConsole
  \/ ConConstruct /\ UNCHANGED OutsideConsole
  \/ ConProcess /\ UNCHANGED OutsideConsole
  \/ ConReport /\ UNCHANGED OutsideConsole

SpecConsole == InitConsole /\ [][NextConsole]_vars

\* The fitting engine.
InitWelder == EngInit /\ InvRest /\ ConRest /\ FwRest /\ ArgRest

OutsideWelder == <<inv_vars, con_vars, fw_vars, arg_vars>>

NextWelder ==
  \/ OpenCandidate /\ UNCHANGED OutsideWelder
  \/ AbsorbSegment /\ UNCHANGED OutsideWelder
  \/ BoundFails /\ UNCHANGED OutsideWelder
  \/ PassThrough /\ UNCHANGED OutsideWelder
  \/ EndOfStream /\ UNCHANGED OutsideWelder
  \/ Cancel /\ UNCHANGED OutsideWelder

SpecWelder == InitWelder /\ [][NextWelder]_vars

\* The interpolation simulator.
InitFirmware == FwInit /\ InvRest /\ ConRest /\ EngRest /\ ArgRest

OutsideFirmware == <<inv_vars, con_vars, eng_vars, arg_vars>>

NextFirmware ==
  \/ set_current_position /\ UNCHANGED OutsideFirmware
  \/ set_current_state /\ UNCHANGED OutsideFirmware
  \/ InterpolateArc /\ UNCHANGED OutsideFirmware

SpecFirmware == InitFirmware /\ [][NextFirmware]_vars

\* The two programs side by side, on command lines that differ in their paths.
InitPaths ==
  InvStart(PathCommandLines) /\ ConStart(ConsolePathCommandLines) /\ EngRest /\ FwRest /\ ArgRest

OutsidePathsInverse == <<con_vars, eng_vars, fw_vars, arg_vars>>

OutsidePathsConsole == <<inv_vars, eng_vars, fw_vars, arg_vars>>

NextPaths ==
  \/ HelpParse /\ UNCHANGED OutsidePathsInverse
  \/ CmdParse /\ UNCHANGED OutsidePathsInverse
  \/ ValidateVersion /\ UNCHANGED OutsidePathsInverse
  \/ FetchDefaults /\ UNCHANGED OutsidePathsInverse
  \/ CheckSource /\ UNCHANGED OutsidePathsInverse
  \/ ApplyOverride /\ UNCHANGED OutsidePathsInverse
  \/ ResolveLogLevel /\ UNCHANGED OutsidePathsInverse
  \/ Setup /\ UNCHANGED OutsidePathsInverse
  \/ Construct /\ UNCHANGED OutsidePathsInverse
  \/ Process /\ UNCHANGED OutsidePathsInverse
  \/ RemoveSource /\ UNCHANGED OutsidePathsInverse
  \/ RenameTemp /\ UNCHANGED OutsidePathsInverse
  \/ Finish /\ UNCHANGED OutsidePathsInverse
  \/ ConParse /\ UNCHANGED OutsidePathsConsole
  \/ ConValidate /\ UNCHANGED OutsidePathsConsole
  \/ ConLogLevel /\ UNCHANGED OutsidePathsConsole
  \/ ConSetup /\ UNCHANGED OutsidePathsConsole
  \/ ConConstruct /\ UNCHANGED OutsidePathsConsole
  \/ ConProcess /\ UNCHANGED OutsidePathsConsole
  \/ ConReport /\ UNCHANGED OutsidePathsConsole

SpecPaths == InitPaths /\ [][NextPaths]_vars

\* main of ArcWelderInverseProcessor and the ends of its call.
InitMain == InvInit /\ ConRest /\ EngRest /\ FwRest /\ ArgRest

NextMain ==
  \/ run_arc_straightener_returns /\ UNCHANGED OutsideInverse
  \/ run_arc_straightener_throws /\ UNCHANGED OutsideInverse

SpecMain == InitMain /\ [][NextMain]_vars

\* A firmware_arguments object.
InitArguments == ArgInit /\ InvRest /\ ConRest /\ EngRest /\ FwRest

OutsideArguments == <<inv_vars, con_vars, eng_vars, fw_vars>>

NextArguments ==
  \/ SetUsedArguments /\ UNCHANGED OutsideArguments
  \/ SetMaxArcSegmentMm /\ UNCHANGED OutsideArguments

SpecArguments == InitArguments /\ [][NextArguments]_vars

====
